---- MODULE Spec2Model ----
(***************************************************************************)
(* Model of the shared default operations of the Drawer trait              *)
(* (src/src/figure/drawers/drawer.rs): colour formatting, background fill  *)
(* on the raster and the vector canvas, grid, axis line, label, title and  *)
(* axis tick value.                                                        *)
(*                                                                         *)
(* A u32 is kept at its full width as a pair <<hi, lo>> of 16-bit limbs    *)
(* (value hi * 2^16 + lo), because TLC's integers stop at 2^31 - 1.        *)
(* An f64 holding a converted u32 is exact and is kept as an integer.      *)
(* A string is a sequence of one-character strings.                        *)
(***************************************************************************)
EXTENDS Integers, Sequences, FiniteSets, TLC

VARIABLES
    build,       \* "debug" (overflow checks on) or "release" (wrapping)
    config,      \* the FigureConfig passed to every call (read-only)
    files,       \* the file system: font path -> "ttf" | "garbage" | "missing"
    canvas,      \* the PixelCanvas: width, height, margin, pixels, drawn primitives
    svg_canvas,  \* the SvgCanvas: width, height, margin, elements
    trace,       \* the events of all calls so far, in order
    status,      \* "running", or "panicked" once a call has aborted
    last,        \* the last call: its name, arguments, result, canvases before it
    written      \* the pixels the last fill_background wrote

vars == <<build, config, files, canvas, svg_canvas, trace, status, last, written>>

----------------------------------------------------------------------------
(* Bounds of the model *)

MaxDim == 4        \* raster / vector canvases are at most MaxDim x MaxDim
MaxMargin == 5     \* margins range over 0..MaxMargin, so some exceed the size
MaxCalls == 3      \* calls per run
MaxTextCalls == 2  \* calls per run of the text operations alone

----------------------------------------------------------------------------
(* u32 arithmetic on 16-bit limbs *)

Base == 2^16

U32(n) == <<n \div Base, n % Base>>

U32_ZERO == <<0, 0>>

U32_MAX == <<Base - 1, Base - 1>>

\* a < b
Lt(a, b) == a[1] < b[1] \/ (a[1] = b[1] /\ a[2] < b[2])

\* a - b modulo 2^32
WrappingSub(a, b) ==
    LET lo == a[2] - b[2]
        borrow == IF lo < 0 THEN 1 ELSE 0
        hi == a[1] - b[1] - borrow
    IN  <<(hi + Base) % Base, (lo + Base) % Base>>

\* u32::saturating_sub
SaturatingSub(a, b) == IF Lt(a, b) THEN U32_ZERO ELSE WrappingSub(a, b)

\* u32::saturating_add
SaturatingAdd(a, b) ==
    LET lo == a[2] + b[2]
        hi == a[1] + b[1] + (lo \div Base)
    IN  IF hi >= Base THEN U32_MAX ELSE <<hi, lo % Base>>

\* a / 2
Half(a) == <<a[1] \div 2, (a[1] % 2) * (Base \div 2) + (a[2] \div 2)>>

\* The operator `-` on u32: with overflow checks the subtraction panics when
\* a < b, without them it wraps.
SubOverflows(a, b) == Lt(a, b)

\* lo <= v < hi, the membership of v in the range lo..hi
InRange(v, lo, hi) == ~Lt(v, lo) /\ Lt(v, hi)

\* u32 as f64 (exact)
AsF64(a) == a[1] * Base + a[2]

----------------------------------------------------------------------------
(* Strings and colours *)

Chars_rgb_open == <<"r", "g", "b", "(">>

Chars_comma == <<",">>

Chars_close == <<")">>

Chars_none == <<"n", "o", "n", "e">>

DigitChar == <<"0", "1", "2", "3", "4", "5", "6", "7", "8", "9">>

\* Display of an unsigned integer, as "{}" formats it: decimal, no padding
RECURSIVE FormatDecimal(_)
FormatDecimal(n) ==
    IF n < 10 THEN <<DigitChar[n + 1]>>
    ELSE FormatDecimal(n \div 10) \o <<DigitChar[(n % 10) + 1]>>

\* Variant: green and blue exchanged
RgbToSvgColorMisordered(color) ==
    Chars_rgb_open \o FormatDecimal(color[1]) \o Chars_comma
        \o FormatDecimal(color[3]) \o Chars_comma
        \o FormatDecimal(color[2]) \o Chars_close

\* format!("rgb({},{},{})", color[0], color[1], color[2])
rgb_to_svg_color(color) ==
    Chars_rgb_open \o FormatDecimal(color[1]) \o Chars_comma
        \o FormatDecimal(color[2]) \o Chars_comma
        \o FormatDecimal(color[3]) \o Chars_close

----------------------------------------------------------------------------
(* The canvases' primitives *)

\* The pixel coordinates a canvas's buffer holds
Coords(cv) == (0 .. AsF64(cv.width) - 1) \X (0 .. AsF64(cv.height) - 1)

\* PixelCanvas::draw_pixel: a write inside the buffer, nothing outside it
canvas_draw_pixel(cv, x, y, color) ==
    IF Lt(x, cv.width) /\ Lt(y, cv.height)
    THEN [cv EXCEPT !.pixels[<<AsF64(x), AsF64(y)>>] = color]
    ELSE cv

\* PixelCanvas::draw_text, draw_line, draw_grid: the primitive is recorded
\* on the canvas in draw order
canvas_draw_text(cv, x, y, text, color, font, scale) ==
    [cv EXCEPT !.drawn = Append(@, [kind |-> "text", x |-> x, y |-> y,
        text |-> text, color |-> color, font |-> font, scale |-> scale])]

canvas_draw_line(cv, x1, y1, x2, y2, color, style) ==
    [cv EXCEPT !.drawn = Append(@, [kind |-> "line", x1 |-> x1, y1 |-> y1,
        x2 |-> x2, y2 |-> y2, color |-> color, style |-> style])]

canvas_draw_grid(cv, counts, color) ==
    [cv EXCEPT !.drawn = Append(@, [kind |-> "grid", counts |-> counts,
        color |-> color])]

\* SvgCanvas::draw_rect: one rectangle record appended to the elements
canvas_draw_rect(sc, x, y, width, height, fill, stroke, stroke_width, opacity) ==
    [sc EXCEPT !.elements = Append(@, [kind |-> "rect", x |-> x, y |-> y,
        width |-> width, height |-> height, fill |-> fill, stroke |-> stroke,
        stroke_width |-> stroke_width, opacity |-> opacity])]

----------------------------------------------------------------------------
(* fill_background *)

\* canvas.height - canvas.margin, the end of the outer range (as wrapped)
FillYEnd(cv) == WrappingSub(cv.height, cv.margin)

\* canvas.width - canvas.margin, the end of the inner range (as wrapped)
FillXEnd(cv) == WrappingSub(cv.width, cv.margin)

\* The outer loop has at least one iteration
FillOuterRuns(cv) == Lt(cv.margin, FillYEnd(cv))

\* A subtraction of the call overflows: the outer bound, or the inner bound,
\* which is evaluated only once the outer loop runs
FillOverflows(cv) ==
    \/ SubOverflows(cv.height, cv.margin)
    \/ (FillOuterRuns(cv) /\ SubOverflows(cv.width, cv.margin))

\* Variant: both ranges include their end (..=)
FillVisitsUpTo(cv, x, y) ==
    /\ InRange(y, cv.margin, SaturatingAdd(FillYEnd(cv), U32(1)))
    /\ InRange(x, cv.margin, SaturatingAdd(FillXEnd(cv), U32(1)))

\* canvas_draw_pixel(x, y, ..) is called for exactly these x, y
FillVisits(cv, x, y) ==
    /\ InRange(y, cv.margin, FillYEnd(cv))
    /\ InRange(x, cv.margin, FillXEnd(cv))

\* The buffer after the two loops
FillPixels(cv, color) ==
    [p \in Coords(cv) |->
        IF FillVisits(cv, U32(p[1]), U32(p[2]))
        THEN canvas_draw_pixel(cv, U32(p[1]), U32(p[2]), color).pixels[p]
        ELSE cv.pixels[p]]

\* Drawer::fill_background: the call's outcome under build b
fill_background(b, cv, cfg) ==
    IF b = "debug" /\ FillOverflows(cv)
    THEN [panic |-> "attempt to subtract with overflow", canvas |-> cv,
          written |-> {}, wrapped |-> FALSE]
    ELSE [panic |-> "none",
          canvas |-> [cv EXCEPT !.pixels = FillPixels(cv, cfg.color_background)],
          written |-> {p \in Coords(cv) : FillVisits(cv, U32(p[1]), U32(p[2]))},
          wrapped |-> FillOverflows(cv)]

----------------------------------------------------------------------------
(* fill_svg_background *)

\* Variant: the rectangle's size loses one margin instead of two
FillSvgBackgroundOneMargin(sc, cfg) ==
    LET margin == AsF64(sc.margin)
    IN  canvas_draw_rect(sc, margin, margin, AsF64(sc.width) - margin,
                  AsF64(sc.height) - margin,
                  rgb_to_svg_color(cfg.color_background), Chars_none, 0, 1)

\* Variant: the rectangle is stroked with the background colour
FillSvgBackgroundStroked(sc, cfg) ==
    LET margin == AsF64(sc.margin)
        bg_color == rgb_to_svg_color(cfg.color_background)
    IN  canvas_draw_rect(sc, margin, margin, AsF64(sc.width) - 2 * margin,
                  AsF64(sc.height) - 2 * margin, bg_color, bg_color, 1, 1)

\* Drawer::fill_svg_background
fill_svg_background(sc, cfg) ==
    LET margin == AsF64(sc.margin)
        width == AsF64(sc.width)
        height == AsF64(sc.height)
        bg_color == rgb_to_svg_color(cfg.color_background)
    IN  canvas_draw_rect(sc, margin, margin, width - 2 * margin, height - 2 * margin,
                  bg_color, Chars_none, 0, 1)

----------------------------------------------------------------------------
(* draw_grid, draw_axis *)

\* Drawer::draw_grid
draw_grid(cv, cfg) ==
    canvas_draw_grid(cv, <<cfg.num_grid_horizontal, cfg.num_grid_vertical>>, cfg.color_grid)

\* Drawer::draw_axis
draw_axis(cv, cfg, x1, y1, x2, y2) ==
    canvas_draw_line(cv, x1, y1, x2, y2, cfg.color_axis, "Solid")

----------------------------------------------------------------------------
(* Text: draw_label, draw_title, draw_axis_value *)

\* The three statements that open each text operation: the font path of the
\* configuration (an Option: <<>> or <<path>>), std::fs::read and
\* FontRef::try_from_slice. events are the steps performed, in order.
LoadFont(font_path, fs) ==
    IF font_path = <<>>
    THEN [panic |-> "Font path is not set", events |-> <<>>]
    ELSE LET path == font_path[1]
             read == [ev |-> "read", path |-> path]
             parse == [ev |-> "parse", path |-> path]
         IN  IF fs[path] = "missing"
             THEN [panic |-> "Failed to read font file", events |-> <<read>>]
             ELSE IF fs[path] # "ttf"
             THEN [panic |-> "called Result::unwrap() on an Err value",
                   events |-> <<read, parse>>]
             ELSE [panic |-> "none", events |-> <<read, parse>>,
                   font |-> [path |-> path, bytes |-> fs[path]]]

\* Variant: the text is drawn before the font is known to have loaded
MeasureAndDrawBeforeCheck(cv, loaded, scale, text, size, anchor, color) ==
    LET drawn == canvas_draw_text(cv, anchor[1], anchor[2], text, color, <<>>, scale)
        steps == << [ev |-> "measure", text |-> text, scale |-> scale],
                    [ev |-> "draw_text", text |-> text, scale |-> scale] >>
    IN  [panic |-> loaded.panic, canvas |-> drawn,
         events |-> loaded.events \o steps]

\* Variant: the text is drawn first and measured afterwards
MeasureAndDrawSwapped(cv, loaded, scale, text, size, anchor, color) ==
    IF loaded.panic # "none"
    THEN [panic |-> loaded.panic, canvas |-> cv, events |-> loaded.events]
    ELSE [panic |-> "none",
          canvas |-> canvas_draw_text(cv, anchor[1], anchor[2], text, color,
                               loaded.font, scale),
          events |-> loaded.events \o
              << [ev |-> "draw_text", text |-> text, scale |-> scale],
                 [ev |-> "measure", text |-> text, scale |-> scale] >>]

\* What follows the font loading: text_size(scale, &font, text), whose answer
\* is size, then the one canvas.draw_text at anchor; nothing when the loading
\* has aborted the call
MeasureAndDraw(cv, loaded, scale, text, size, anchor, color) ==
    IF loaded.panic # "none"
    THEN [panic |-> loaded.panic, canvas |-> cv, events |-> loaded.events]
    ELSE [panic |-> "none",
          canvas |-> canvas_draw_text(cv, anchor[1], anchor[2], text, color,
                               loaded.font, scale),
          events |-> loaded.events \o
              << [ev |-> "measure", text |-> text, scale |-> scale],
                 [ev |-> "draw_text", text |-> text, scale |-> scale] >>]

\* Variant: plain wrapping subtraction
CenteredAnchorWrapping(x, y, size) ==
    <<WrappingSub(x, Half(size[1])), WrappingSub(y, Half(size[2]))>>

\* (x.saturating_sub(w / 2), y.saturating_sub(h / 2))
CenteredAnchor(x, y, size) ==
    <<SaturatingSub(x, Half(size[1])), SaturatingSub(y, Half(size[2]))>>

\* Drawer::draw_label
draw_label(cv, cfg, fs, x, y, text, size) ==
    MeasureAndDraw(cv, LoadFont(cfg.font_label, fs), cfg.font_size_label, text,
                   size, CenteredAnchor(x, y, size), cfg.color_axis)

\* Drawer::draw_title
draw_title(cv, cfg, fs, x, y, text, size) ==
    MeasureAndDraw(cv, LoadFont(cfg.font_title, fs), cfg.font_size_title, text,
                   size, CenteredAnchor(x, y, size), cfg.color_title)

\* Variant: the vertical axis centres the text like a label
AxisAnchorCentered(x, y, size, axis) ==
    IF axis = "AxisX"
    THEN <<SaturatingSub(x, Half(size[1])), SaturatingAdd(y, size[2])>>
    ELSE <<SaturatingSub(x, Half(size[1])), SaturatingSub(y, Half(size[2]))>>

\* The match on the axis type
AxisAnchor(x, y, size, axis) ==
    IF axis = "AxisX"
    THEN <<SaturatingSub(x, Half(size[1])), SaturatingAdd(y, size[2])>>
    ELSE <<SaturatingSub(x, size[1]), SaturatingSub(y, Half(size[2]))>>

\* Drawer::draw_axis_value
draw_axis_value(cv, cfg, fs, x, y, text, size, axis) ==
    MeasureAndDraw(cv, LoadFont(cfg.font_label, fs), cfg.font_size_axis, text,
                   size, AxisAnchor(x, y, size, axis), cfg.color_axis)

----------------------------------------------------------------------------
(* Inputs *)

Builds == {"debug", "release"}

White == <<255, 255, 255>>

Black == <<0, 0, 0>>

Ink == <<10, 99, 7>>

\* Colours whose components have one, two and three digits in every position
Colors ==
    { White, Black, Ink, <<7, 10, 99>>, <<99, 7, 10>>, <<100, 0, 9>>,
      <<0, 255, 100>>, <<200, 100, 0>>, <<1, 2, 3>>, <<9, 90, 109>> }

Paths == {"title.ttf", "label.ttf"}

FileStates == {"ttf", "garbage", "missing"}

Config(bg, font_title, font_label) ==
    [color_background |-> bg, color_title |-> Black, color_axis |-> Ink,
     color_grid |-> <<100, 100, 100>>,
     num_grid_horizontal |-> 5, num_grid_vertical |-> 4,
     font_title |-> font_title, font_label |-> font_label,
     font_size_title |-> 20, font_size_label |-> 14, font_size_axis |-> 10]

\* Initial pixel contents of a w x h buffer
Patterns == {"black", "white", "checker"}

InitialPixels(pattern, w, h) ==
    [p \in (0 .. w - 1) \X (0 .. h - 1) |->
        IF pattern = "black" THEN Black
        ELSE IF pattern = "white" THEN White
        ELSE IF (p[1] + p[2]) % 2 = 0 THEN Ink ELSE Black]

\* PixelCanvas::new
NewPixelCanvas(w, h, m, pattern) ==
    [width |-> U32(w), height |-> U32(h), margin |-> U32(m),
     pixels |-> InitialPixels(pattern, w, h), drawn |-> <<>>]

\* Elements a vector canvas may already hold
PriorElements ==
    { <<>>,
      << [kind |-> "line", x1 |-> 0, y1 |-> 0, x2 |-> 3, y2 |-> 0],
         [kind |-> "text", x |-> 1, y |-> 1, text |-> "Sales"] >> }

\* SvgCanvas::new
NewSvgCanvas(w, h, m, elements) ==
    [width |-> U32(w), height |-> U32(h), margin |-> U32(m),
     elements |-> elements]

\* 2^32 - 3
NearMax == <<Base - 1, Base - 3>>

\* Points (x, y) given to the text operations
Points ==
    { <<U32(100), U32(50)>>, <<U32(3), U32(50)>>, <<NearMax, NearMax>> }

\* Texts with the size text_size measures for them
TextCases ==
    { <<"Sales", <<U32(40), U32(10)>> >>,
      <<"Q", <<U32(7), U32(5)>> >>,
      <<"W", <<U32_MAX, U32_MAX>> >> }

AxisTypes == {"AxisX", "AxisY"}

NoCall ==
    [op |-> "none", args |-> <<>>, panic |-> "none", result |-> <<>>,
     pre_canvas |-> <<>>, pre_svg |-> <<>>]

----------------------------------------------------------------------------
(* Calls *)

NCalls == Cardinality({i \in DOMAIN trace : trace[i].ev = "enter"})

\* What every call leaves behind: its events, its outcome, the canvases
Call(op, args, panic, cv, sc, events, result) ==
    /\ status = "running"
    /\ trace' = trace \o <<[ev |-> "enter", op |-> op, args |-> args]>> \o events
                \o <<IF panic = "none"
                     THEN [ev |-> "return", op |-> op, result |-> result]
                     ELSE [ev |-> "panic", op |-> op, msg |-> panic]>>
    /\ status' = IF panic = "none" THEN "running" ELSE "panicked"
    /\ canvas' = cv
    /\ svg_canvas' = sc
    /\ last' = [op |-> op, args |-> args, panic |-> panic, result |-> result,
                pre_canvas |-> canvas, pre_svg |-> svg_canvas]
    /\ UNCHANGED <<build, config, files>>

RgbToSvgColor(color) ==
    /\ Call("rgb_to_svg_color", <<color>>, "none", canvas, svg_canvas, <<>>,
            rgb_to_svg_color(color))
    /\ UNCHANGED written

FillSvgBackground ==
    /\ Call("fill_svg_background", <<>>, "none", canvas,
            fill_svg_background(svg_canvas, config), <<>>, <<>>)
    /\ UNCHANGED written

FillBackground ==
    LET out == fill_background(build, canvas, config)
    IN  /\ Call("fill_background", <<>>, out.panic, out.canvas, svg_canvas, <<>>,
                [wrapped |-> out.wrapped])
        /\ written' = out.written

DrawGrid ==
    /\ Call("draw_grid", <<>>, "none", draw_grid(canvas, config), svg_canvas,
            <<>>, <<>>)
    /\ UNCHANGED written

DrawAxis(x1, y1, x2, y2) ==
    /\ Call("draw_axis", <<x1, y1, x2, y2>>, "none",
            draw_axis(canvas, config, x1, y1, x2, y2), svg_canvas, <<>>, <<>>)
    /\ UNCHANGED written

DrawLabel(x, y, text, size) ==
    LET out == draw_label(canvas, config, files, x, y, text, size)
    IN  /\ Call("draw_label", <<x, y, text, size>>, out.panic, out.canvas,
                svg_canvas, out.events, <<>>)
        /\ UNCHANGED written

DrawTitle(x, y, text, size) ==
    LET out == draw_title(canvas, config, files, x, y, text, size)
    IN  /\ Call("draw_title", <<x, y, text, size>>, out.panic, out.canvas,
                svg_canvas, out.events, <<>>)
        /\ UNCHANGED written

DrawAxisValue(x, y, text, size, axis) ==
    LET out == draw_axis_value(canvas, config, files, x, y, text, size, axis)
    IN  /\ Call("draw_axis_value", <<x, y, text, size, axis>>, out.panic,
                out.canvas, svg_canvas, out.events, <<>>)
        /\ UNCHANGED written

----------------------------------------------------------------------------
(* Specifications *)

InitCommon ==
    /\ trace = <<>>
    /\ status = "running"
    /\ last = NoCall
    /\ written = {}

\* Colour formatting on its own
InitColor ==
    /\ InitCommon
    /\ build \in Builds
    /\ config = Config(White, <<"title.ttf">>, <<"label.ttf">>)
    /\ files = [p \in Paths |-> "ttf"]
    /\ canvas = NewPixelCanvas(MaxDim, MaxDim, 1, "black")
    /\ svg_canvas = NewSvgCanvas(MaxDim, MaxDim, 1, <<>>)

NextColor ==
    /\ NCalls < MaxCalls
    /\ \E color \in Colors : RgbToSvgColor(color)

SpecColor == InitColor /\ [][NextColor]_vars

\* The background fills on canvases of every size and margin
InitFill ==
    /\ InitCommon
    /\ build \in Builds
    /\ \E bg \in {White, Ink} :
          config = Config(bg, <<"title.ttf">>, <<"label.ttf">>)
    /\ files = [p \in Paths |-> "ttf"]
    /\ \E w \in 0 .. MaxDim, h \in 0 .. MaxDim, m \in 0 .. MaxMargin :
          /\ \E pattern \in Patterns : canvas = NewPixelCanvas(w, h, m, pattern)
          /\ \E elements \in PriorElements :
                svg_canvas = NewSvgCanvas(w, h, m, elements)

NextFill ==
    /\ NCalls < MaxCalls
    /\ \/ FillBackground
       \/ FillSvgBackground

SpecFill == InitFill /\ [][NextFill]_vars

\* The text operations on every font configuration and file state
InitText ==
    /\ InitCommon
    /\ build = "release"
    /\ \E ft \in {<<>>, <<"title.ttf">>}, fl \in {<<>>, <<"label.ttf">>} :
          config = Config(White, ft, fl)
    /\ files \in [Paths -> FileStates]
    /\ canvas = NewPixelCanvas(MaxDim, MaxDim, 1, "black")
    /\ svg_canvas = NewSvgCanvas(MaxDim, MaxDim, 1, <<>>)

NextText ==
    /\ NCalls < MaxTextCalls
    /\ \E pt \in Points, tc \in TextCases :
          \/ DrawLabel(pt[1], pt[2], tc[1], tc[2])
          \/ DrawTitle(pt[1], pt[2], tc[1], tc[2])
          \/ \E axis \in AxisTypes :
                DrawAxisValue(pt[1], pt[2], tc[1], tc[2], axis)

SpecText == InitText /\ [][NextText]_vars

\* Sequences of all the shared default operations
Init ==
    /\ InitCommon
    /\ build \in Builds
    /\ \E ft \in {<<>>, <<"title.ttf">>}, fl \in {<<>>, <<"label.ttf">>} :
          config = Config(White, ft, fl)
    /\ files \in [Paths -> FileStates]
    /\ \E dims \in {<<MaxDim, MaxDim, 1>>, <<2, 1, 3>>} :
          /\ canvas = NewPixelCanvas(dims[1], dims[2], dims[3], "black")
          /\ svg_canvas = NewSvgCanvas(dims[1], dims[2], dims[3], <<>>)

Next ==
    /\ NCalls < MaxCalls
    /\ \/ RgbToSvgColor(Ink)
       \/ FillSvgBackground
       \/ FillBackground
       \/ DrawGrid
       \/ DrawAxis(0, 3, 3, 3)
       \/ DrawLabel(U32(3), U32(50), "Q", <<U32(7), U32(5)>>)
       \/ DrawTitle(U32(100), U32(50), "Sales", <<U32(40), U32(10)>>)
       \/ \E axis \in AxisTypes :
             DrawAxisValue(NearMax, U32(3), "Q", <<U32(7), U32(5)>>, axis)

Spec == Init /\ [][Next]_vars

----------------------------------------------------------------------------
(* Vocabulary of the properties *)

TextOps == {"draw_label", "draw_title", "draw_axis_value"}

\* a + b without loss: <<carry, hi, lo>>
ExactAdd(a, b) ==
    LET lo == a[2] + b[2]
        hi == a[1] + b[1] + (lo \div Base)
    IN  <<hi \div Base, hi % Base, lo % Base>>

Exact(a) == <<0, a[1], a[2]>>

\* q = floor(w / 2): q + q is w, or w - 1 when w is odd
IsFloorHalf(q, w) == ExactAdd(q, q) = <<0, w[1], w[2] - (w[2] % 2)>>

FloorHalf(w) ==
    CHOOSE q \in { <<w[1] \div 2, w[2] \div 2>>,
                   <<w[1] \div 2, (w[2] \div 2) + (Base \div 2)>> } :
        IsFloorHalf(q, w)

\* a = max(0, x - q)
IsMax0Diff(a, x, q) ==
    IF Lt(x, q) THEN a = U32_ZERO ELSE ExactAdd(a, q) = Exact(x)

\* a = x + q
IsSum(a, x, q) == ExactAdd(x, q) = Exact(a)

\* a = min(x + q, 2^32 - 1)
IsSumOrMax(a, x, q) ==
    IF ExactAdd(x, q)[1] = 1 THEN a = U32_MAX ELSE ExactAdd(x, q) = Exact(a)

\* The value of a digit character, -1 for any other character
DigitValue(ch) ==
    IF \E d \in 0 .. 9 : DigitChar[d + 1] = ch
    THEN CHOOSE d \in 0 .. 9 : DigitChar[d + 1] = ch
    ELSE -1

\* The number a sequence of digit characters writes
RECURSIVE ParseDecimal(_)
ParseDecimal(cs) ==
    IF Len(cs) = 0 THEN 0
    ELSE 10 * ParseDecimal(SubSeq(cs, 1, Len(cs) - 1)) + DigitValue(cs[Len(cs)])

\* cs is a decimal numeral without padding: digits only, no leading zero
IsUnpadded(cs) ==
    /\ Len(cs) >= 1
    /\ \A i \in DOMAIN cs : DigitValue(cs[i]) >= 0
    /\ (Len(cs) > 1 => cs[1] # "0")

\* The three fields of "rgb(f1,f2,f3)", or <<>> when s has another shape
RgbFields(s) ==
    LET commas == {i \in DOMAIN s : s[i] = ","}
    IN  IF /\ Len(s) >= 6
           /\ SubSeq(s, 1, 4) = <<"r", "g", "b", "(">>
           /\ s[Len(s)] = ")"
           /\ Cardinality(commas) = 2
        THEN LET c1 == CHOOSE i \in commas : \A j \in commas : i <= j
                 c2 == CHOOSE i \in commas : \A j \in commas : j <= i
             IN  <<SubSeq(s, 5, c1 - 1), SubSeq(s, c1 + 1, c2 - 1),
                   SubSeq(s, c2 + 1, Len(s) - 1)>>
        ELSE <<>>

\* s is exactly "rgb(r,g,b)" for the colour
IsRgbString(s, color) ==
    LET f == RgbFields(s)
    IN  /\ Len(f) = 3
        /\ \A k \in 1 .. 3 : IsUnpadded(f[k]) /\ ParseDecimal(f[k]) = color[k]

\* The calls of the trace: the index of each "enter" event
Enters == {i \in DOMAIN trace : trace[i].ev = "enter"}

\* The index of the event that ends the call entered at i
EndOf(i) ==
    CHOOSE j \in DOMAIN trace :
        /\ j > i
        /\ trace[j].ev \in {"return", "panic"}
        /\ \A k \in (i + 1) .. (j - 1) : trace[k].ev \notin {"return", "panic"}

HasCall(op) == \E i \in Enters : trace[i].op = op

\* margin < width / 2 and margin < height / 2
MarginInvariant(cv) ==
    /\ 2 * AsF64(cv.margin) < AsF64(cv.width)
    /\ 2 * AsF64(cv.margin) < AsF64(cv.height)

\* (x, y) lies in [margin, width - margin) x [margin, height - margin)
Inside(cv, p) ==
    /\ AsF64(cv.margin) <= p[1]
    /\ p[1] < AsF64(cv.width) - AsF64(cv.margin)
    /\ AsF64(cv.margin) <= p[2]
    /\ p[2] < AsF64(cv.height) - AsF64(cv.margin)

----------------------------------------------------------------------------
(* Properties *)

\* C1: on a canvas with margin < width/2 and margin < height/2,
\* fill_background completes, sets every pixel of
\* [margin, width - margin) x [margin, height - margin) to the background
\* colour and leaves every other pixel as it was before the call; on a
\* 200 x 200 canvas with margin 20 it writes (100, 100) and not (19, 19).
C1_FillInsideOnly ==
    (last.op = "fill_background" /\ MarginInvariant(last.pre_canvas)) =>
        /\ last.panic = "none"
        /\ DOMAIN canvas.pixels = DOMAIN last.pre_canvas.pixels
        /\ \A p \in DOMAIN canvas.pixels :
              canvas.pixels[p] =
                  IF Inside(last.pre_canvas, p)
                  THEN config.color_background
                  ELSE last.pre_canvas.pixels[p]
        /\ LET figure == [width |-> U32(200), height |-> U32(200),
                          margin |-> U32(20)]
           IN  /\ ~FillOverflows(figure)
               /\ ~FillVisits(figure, U32(19), U32(19))
               /\ FillVisits(figure, U32(100), U32(100))

\* A fill with margin >= 1 that repainted an inner pixel and kept a border
\* pixel of another colour
C1_Witness ==
    /\ last.op = "fill_background"
    /\ MarginInvariant(last.pre_canvas)
    /\ AsF64(canvas.margin) >= 1
    /\ \E p \in DOMAIN canvas.pixels :
          /\ Inside(canvas, p)
          /\ last.pre_canvas.pixels[p] # config.color_background
          /\ canvas.pixels[p] = config.color_background
    /\ \E p \in DOMAIN canvas.pixels :
          /\ ~Inside(canvas, p)
          /\ canvas.pixels[p] # config.color_background

\* C10: when margin >= width/2 or margin >= height/2, fill_background
\* completes, writes no pixel, and computes width - margin and
\* height - margin without wrapping around or faulting.
C10_EmptyFillWithoutWrap ==
    (last.op = "fill_background" /\ ~MarginInvariant(last.pre_canvas)) =>
        /\ last.panic = "none"
        /\ ~last.result.wrapped
        /\ written = {}
        /\ canvas = last.pre_canvas

\* The cells a rectangle record covers
Cells == (0 .. MaxDim + MaxMargin) \X (0 .. MaxDim + MaxMargin)

RectCells(r) ==
    {p \in Cells : /\ r.x <= p[1] /\ p[1] + 1 <= r.x + r.width
                   /\ r.y <= p[2] /\ p[2] + 1 <= r.y + r.height}

LastElement == svg_canvas.elements[Len(svg_canvas.elements)]

\* C6: with margin < width/2 and margin < height/2, the rectangle of
\* fill_svg_background has origin (margin, margin) and size
\* (width - 2 margin) x (height - 2 margin), covers exactly the pixels
\* fill_background writes on a raster canvas of the same size and margin, and
\* its fill string writes the colour components of those pixels.
C6_BackendParity ==
    ( /\ MarginInvariant(canvas)
      /\ HasCall("fill_background")
      /\ HasCall("fill_svg_background") ) =>
        LET r == LastElement
            m == AsF64(svg_canvas.margin)
        IN  /\ r.kind = "rect"
            /\ r.x = m /\ r.y = m
            /\ r.width = AsF64(svg_canvas.width) - 2 * m
            /\ r.height = AsF64(svg_canvas.height) - 2 * m
            /\ RectCells(r) = written
            /\ IsRgbString(r.fill, config.color_background)
            /\ \A p \in written : IsRgbString(r.fill, canvas.pixels[p])

\* Both fills done on a canvas with a margin and a non-empty inner area
C6_Witness ==
    /\ MarginInvariant(canvas)
    /\ HasCall("fill_background")
    /\ HasCall("fill_svg_background")
    /\ AsF64(canvas.margin) >= 1
    /\ written # {}
    /\ written # DOMAIN canvas.pixels

\* C7: fill_svg_background appends exactly one record to the end of the
\* elements, a rectangle with stroke "none", stroke width 0, opacity 1 and
\* the background colour as fill; the records present before keep their
\* content and order, and width, height and margin are unchanged.
C7_AppendsOneRect ==
    last.op = "fill_svg_background" =>
        LET before == last.pre_svg.elements
            after == svg_canvas.elements
        IN  /\ last.panic = "none"
            /\ Len(after) = Len(before) + 1
            /\ SubSeq(after, 1, Len(before)) = before
            /\ LastElement.kind = "rect"
            /\ LastElement.stroke = <<"n", "o", "n", "e">>
            /\ LastElement.stroke_width = 0
            /\ LastElement.opacity = 1
            /\ IsRgbString(LastElement.fill, config.color_background)
            /\ svg_canvas.width = last.pre_svg.width
            /\ svg_canvas.height = last.pre_svg.height
            /\ svg_canvas.margin = last.pre_svg.margin

\* A fill_svg_background on a canvas that already held elements
C7_Witness ==
    /\ last.op = "fill_svg_background"
    /\ Len(last.pre_svg.elements) >= 2
    /\ last.pre_svg.elements[1].kind = "line"

\* C5: rgb_to_svg_color returns exactly "rgb(r,g,b)", components in the
\* order red, green, blue, decimal, without padding or spaces; it changes
\* nothing, and two calls with the same colour return the same string
\* whatever was called in between.
C5_ExactRgbString ==
    /\ last.op = "rgb_to_svg_color" =>
          /\ last.panic = "none"
          /\ IsRgbString(last.result, last.args[1])
          /\ \A n \in 0 .. 255 :
                IsUnpadded(FormatDecimal(n)) /\ ParseDecimal(FormatDecimal(n)) = n
          /\ canvas = last.pre_canvas
          /\ svg_canvas = last.pre_svg
    /\ (last.op = "rgb_to_svg_color" /\ last.args[1] = Ink) =>
          last.result =
              <<"r", "g", "b", "(", "1", "0", ",", "9", "9", ",", "7", ")">>
    /\ \A i \in Enters, j \in Enters :
          ( /\ trace[i].op = "rgb_to_svg_color"
            /\ trace[j].op = "rgb_to_svg_color"
            /\ trace[i].args = trace[j].args ) =>
              trace[i + 1].result = trace[j + 1].result

\* The same colour formatted twice with another colour in between, its
\* components of one, two and three digits
C5_Witness ==
    \E i \in Enters, k \in Enters, j \in Enters :
        /\ i < k /\ k < j
        /\ trace[i].op = "rgb_to_svg_color"
        /\ trace[i].args = <<(<<100, 0, 9>>)>>
        /\ trace[j].args = trace[i].args
        /\ trace[k].args # trace[i].args
        /\ trace[j + 1].result =
              <<"r", "g", "b", "(", "1", "0", "0", ",", "0", ",", "9", ")">>

\* The text record the last call drew
LastDrawn == canvas.drawn[Len(canvas.drawn)]

\* The last call drew exactly one text and nothing else
DrewOneText ==
    /\ Len(canvas.drawn) = Len(last.pre_canvas.drawn) + 1
    /\ SubSeq(canvas.drawn, 1, Len(last.pre_canvas.drawn)) = last.pre_canvas.drawn
    /\ canvas.pixels = last.pre_canvas.pixels
    /\ LastDrawn.kind = "text"
    /\ LastDrawn.text = last.args[3]

\* C2: a successful draw_label or draw_title with point (x, y) and measured
\* size (w, h) makes a single draw_text call, at the anchor
\* (max(0, x - floor(w/2)), max(0, y - floor(h/2))); point (100, 50) with
\* size (40, 10) gives the anchor (80, 45).
C2_CenteredAnchor ==
    (last.op \in {"draw_label", "draw_title"} /\ last.panic = "none") =>
        LET x == last.args[1]
            y == last.args[2]
            w == last.args[4][1]
            h == last.args[4][2]
        IN  /\ DrewOneText
            /\ IsMax0Diff(LastDrawn.x, x, FloorHalf(w))
            /\ IsMax0Diff(LastDrawn.y, y, FloorHalf(h))
            /\ (x = U32(100) /\ y = U32(50) /\ w = U32(40) /\ h = U32(10)) =>
                  (LastDrawn.x = U32(80) /\ LastDrawn.y = U32(45))

\* A label whose x falls short of half the width (anchor x clamped to 0)
\* while its y does not (anchor y exact)
C2_Witness ==
    /\ last.op = "draw_label"
    /\ last.panic = "none"
    /\ last.args[1] = U32(3)
    /\ last.args[4] = <<U32(40), U32(10)>>
    /\ LastDrawn.x = U32_ZERO
    /\ LastDrawn.y = U32(45)

\* C3 as stated: a successful draw_axis_value draws at
\* (max(0, x - floor(w/2)), y + h) for AxisX and at
\* (max(0, x - w), max(0, y - floor(h/2))) for AxisY.
C3_AxisAnchorAsStated ==
    (last.op = "draw_axis_value" /\ last.panic = "none") =>
        LET x == last.args[1]
            y == last.args[2]
            w == last.args[4][1]
            h == last.args[4][2]
        IN  /\ DrewOneText
            /\ last.args[5] = "AxisX" =>
                  /\ IsMax0Diff(LastDrawn.x, x, FloorHalf(w))
                  /\ IsSum(LastDrawn.y, y, h)
            /\ last.args[5] = "AxisY" =>
                  /\ IsMax0Diff(LastDrawn.x, x, w)
                  /\ IsMax0Diff(LastDrawn.y, y, FloorHalf(h))

\* C3 amended: as stated, except that for AxisX the anchor's y is
\* min(y + h, 2^32 - 1): the sum saturates at the largest u32.
C3_AxisAnchorSaturating ==
    (last.op = "draw_axis_value" /\ last.panic = "none") =>
        LET x == last.args[1]
            y == last.args[2]
            w == last.args[4][1]
            h == last.args[4][2]
        IN  /\ DrewOneText
            /\ last.args[5] = "AxisX" =>
                  /\ IsMax0Diff(LastDrawn.x, x, FloorHalf(w))
                  /\ IsSumOrMax(LastDrawn.y, y, h)
            /\ last.args[5] = "AxisY" =>
                  /\ IsMax0Diff(LastDrawn.x, x, w)
                  /\ IsMax0Diff(LastDrawn.y, y, FloorHalf(h))

\* A horizontal tick value whose y + h exceeds 2^32 - 1
C3_Witness ==
    /\ last.op = "draw_axis_value"
    /\ last.panic = "none"
    /\ last.args[5] = "AxisX"
    /\ ExactAdd(last.args[2], last.args[4][2])[1] = 1
    /\ LastDrawn.y = U32_MAX

\* The font path a text operation reads
FontPathOf(op) == IF op = "draw_title" THEN config.font_title ELSE config.font_label

FontUsable(font_path) == font_path # <<>> /\ files[font_path[1]] = "ttf"

\* The events of the last call
LastEnter == CHOOSE i \in Enters : \A j \in Enters : j <= i

\* C4: a text operation whose font path is unset, whose font file is
\* unreadable or whose font data is unparsable aborts, with the canvases as
\* they were before the call and no draw_text performed by the call.
C4_FailureLeavesCanvas ==
    (last.op \in TextOps /\ ~FontUsable(FontPathOf(last.op))) =>
        /\ last.panic # "none"
        /\ status = "panicked"
        /\ canvas = last.pre_canvas
        /\ svg_canvas = last.pre_svg
        /\ \A k \in DOMAIN trace :
              k > LastEnter => trace[k].ev \notin {"measure", "draw_text"}

\* draw_title aborts for want of a title font path, on a canvas that an
\* earlier successful call has drawn on
C4_Witness ==
    /\ last.op = "draw_title"
    /\ config.font_title = <<>>
    /\ status = "panicked"
    /\ last.panic = "Font path is not set"
    /\ Len(canvas.drawn) >= 1

\* The scale a text operation measures and draws at
ScaleOf(op) ==
    IF op = "draw_title" THEN config.font_size_title
    ELSE IF op = "draw_label" THEN config.font_size_label
    ELSE config.font_size_axis

EventCount(ev) == Cardinality({k \in DOMAIN trace : trace[k].ev = ev})

\* C9: every successful text call performs, once each and in this order, the
\* font read, the parse, the measurement and draw_text, the last two on the
\* call's text at the call's scale; n successful calls perform n reads.
C9_ReadParseMeasureDraw ==
    /\ \A i \in Enters :
          (trace[i].op \in TextOps /\ trace[EndOf(i)].ev = "return") =>
              LET seg == SubSeq(trace, i + 1, EndOf(i) - 1)
              IN  /\ Len(seg) = 4
                  /\ seg[1].ev = "read"
                  /\ seg[2].ev = "parse"
                  /\ seg[3].ev = "measure"
                  /\ seg[4].ev = "draw_text"
                  /\ <<seg[1].path>> = FontPathOf(trace[i].op)
                  /\ seg[2].path = seg[1].path
                  /\ seg[3].text = trace[i].args[3]
                  /\ seg[4].text = trace[i].args[3]
                  /\ seg[3].scale = ScaleOf(trace[i].op)
                  /\ seg[4].scale = ScaleOf(trace[i].op)
    /\ status = "running" =>
          /\ EventCount("read") = Cardinality({i \in Enters : trace[i].op \in TextOps})
          /\ EventCount("draw_text") = EventCount("read")

\* Two successful text calls that use the same font file: two reads
C9_Witness ==
    /\ status = "running"
    /\ NCalls = 2
    /\ \A i \in Enters : trace[i].op \in {"draw_label", "draw_axis_value"}
    /\ \E i \in Enters : trace[i].op = "draw_label"
    /\ \E i \in Enters : trace[i].op = "draw_axis_value"
    /\ EventCount("read") = 2

\* Every font file is readable and parsable
FontFilesGood == \A p \in Paths : files[p] = "ttf"

\* C8: with readable, parsable font files, draw_title fails iff the title
\* font path is unset, draw_label and draw_axis_value fail iff the label font
\* path is unset, the other operations never fail for a missing font path,
\* and the first fatal failure of a sequence is at the first text operation
\* whose font path is unset.
C8_FirstFailureAtUnsetFont ==
    FontFilesGood =>
        /\ last.op \in TextOps =>
              (last.panic # "none" <=> FontPathOf(last.op) = <<>>)
        /\ (last.op \notin TextOps /\ last.op # "none") =>
              last.panic # "Font path is not set"
        /\ status = "panicked" =>
              /\ last.op \in TextOps
              /\ FontPathOf(last.op) = <<>>
              /\ \A i \in Enters :
                    (i < LastEnter /\ trace[i].op \in TextOps) =>
                        FontPathOf(trace[i].op) # <<>>

\* The part of C8 that is about fonts alone: which calls abort for a
\* missing font path
C8_FontFailuresOnly ==
    FontFilesGood =>
        /\ last.op \in TextOps =>
              (last.panic # "none" <=> FontPathOf(last.op) = <<>>)
        /\ (last.op \notin TextOps /\ last.op # "none") =>
              last.panic # "Font path is not set"
        /\ (status = "panicked" /\ last.panic = "Font path is not set") =>
              /\ last.op \in TextOps
              /\ FontPathOf(last.op) = <<>>
              /\ \A i \in Enters :
                    (i < LastEnter /\ trace[i].op \in TextOps) =>
                        FontPathOf(trace[i].op) # <<>>

====
